---- MODULE Spec2Model ----
(***************************************************************************)
(* Verification model of the hands-on-llms notebooks.                      *)
(*                                                                         *)
(*  - Conversation (tracking notebook)          Spec, SpecResponseOnly     *)
(*  - Summary / generate_summary (summary notebook)     SpecSummary        *)
(*  - get_faithfulness (evaluation notebook)            SpecFaithfulness   *)
(*  - load_template (Jinja rendering)                   SpecTemplate       *)
(*  - summary chatbot cells (summary notebook)          SpecChatbot        *)
(*  - interactive chat loop (tracking notebook)         SpecLoop           *)
(*  - few-shot classification loop                      SpecFewShot        *)
(*  - is_haiku / haiku_check (summary notebook)         SpecHaiku          *)
(*  - perplexity loop (summary notebook)                SpecPerplexity     *)
(*  - check_token_limit beside its reference loop       SpecReference      *)
(*  - response() with the state before the call noted   SpecNoted          *)
(*                                                                         *)
(* A content string is represented by its length, the only thing the       *)
(* Conversation code reads of it (len(content)).  Every message carries    *)
(* the ordinal n of the add_message call that appended it, which keeps     *)
(* equal dictionaries apart.                                               *)
(***************************************************************************)
EXTENDS Integers, Sequences, FiniteSets, TLC

VARIABLES
    system_prompt,    \* Conversation.system_prompt
    history,          \* Conversation.history
    tokens,           \* Conversation.tokens
    removed_message,  \* local of check_token_limit: the last popped message
    pc,               \* position of the running call
    caller,           \* who entered check_token_limit: "public" or "response"
    spinning,         \* the for loop of check_token_limit ended without break
    adds,             \* number of add_message calls made so far
    requests,         \* API requests issued by the current response() call
    evictions,        \* messages popped since the current call began
    tokens_at_call,   \* tokens when the current response() call began
    outcome,          \* how the last finished response() ended
    returned,         \* value returned by the last finished response()
    \* running summary
    current_summary,  \* the global current_summary, a Summary
    summary_prompt,   \* the global summary_prompt: the arguments rendered in it
    json_content,     \* local of generate_summary: the parsed reply
    sum_pc,           \* position in the summary cells
    \* get_faithfulness
    statements,            \* statements.simpler_statements
    faithfulness_answers,  \* local of get_faithfulness
    score,                 \* local of get_faithfulness
    faith_result,          \* the Faithfulness returned
    faith_pc,              \* position in get_faithfulness
    \* load_template
    template_filepath,  \* argument: the path, as its stem and its extension
    template_source,    \* the text of the file at that path
    arguments,          \* argument: name -> value
    rendered,           \* the string returned
    tpl_pc,             \* position in load_template
    \* summary chatbot turn
    bot_user_input,  \* the global user_input of the chatbot cells
    chat_prompt,     \* the global chat_prompt: the arguments rendered in it
    chat_sent,       \* the prompt of the last chatbot request
    bot_response,    \* the global response of the chatbot cells, with its turn
    turn,            \* number of the current turn
    step_log,        \* the steps of the current turn done so far
    summary_before,  \* current_summary when the current turn began
    bot_pc,          \* the next cell of the turn
    \* interactive chat loop
    conversation_history,  \* system_state["conversation_history"]
    loop_input,            \* user_input of the current iteration
    request_sent,          \* messages of the last request
    history_at_iteration,  \* conversation_history at the iteration's start
    iterations,            \* iterations that appended a user message
    loop_pc,               \* position in the loop
    \* few-shot classification loop
    messages,       \* the shared few-shot messages list
    zipped,         \* the (haiku, target) pairs
    result,         \* the (haiku, target, reply) tuples
    shot_index,     \* pairs the for loop has taken
    shot_requests,  \* messages of every request, in order
    shot_pc,        \* position in the loop
    \* is_haiku and haiku_check
    haiku_response,  \* response, the text is_haiku is given
    haiku_returned,  \* what is_haiku returned
    responses,       \* the (response, check) tuples of haiku_check
    haiku_pc,        \* position in haiku_check
    \* perplexity loop
    log_probs,         \* log-probabilities of the completion's tokens
    perplexity_score,  \* np.exp(-np.mean(log_probs))
    question,          \* questions the loop has finished
    ppl_pc,            \* position in the loop
    \* reference trimming operation
    ref_start,   \* history, tokens and adds the reference was started from
    ref_result,  \* history and tokens the reference ended with
    \* state before a response() call
    before_call   \* history, tokens and adds noted while no call runs

convVars == <<system_prompt, history, tokens, removed_message, pc, caller,
              spinning, adds, requests, evictions, tokens_at_call, outcome,
              returned>>

sumVars == <<current_summary, summary_prompt, json_content, sum_pc>>

faithVars == <<statements, faithfulness_answers, score, faith_result,
               faith_pc>>

tplVars == <<template_filepath, template_source, arguments, rendered, tpl_pc>>

botVars == <<bot_user_input, chat_prompt, chat_sent, bot_response, turn,
             step_log, summary_before, bot_pc>>

loopVars == <<conversation_history, loop_input, request_sent,
              history_at_iteration, iterations, loop_pc>>

shotVars == <<messages, zipped, result, shot_index, shot_requests, shot_pc>>

haikuVars == <<haiku_response, haiku_returned, responses, haiku_pc>>

pplVars == <<log_probs, perplexity_score, question, ppl_pc>>

refVars == <<ref_start, ref_result>>

snapVars == <<before_call>>

vars ==
    <<convVars, sumVars, faithVars, tplVars, botVars, loopVars, shotVars,
      haikuVars, pplVars, refVars, snapVars>>

nonConvVars ==
    <<sumVars, faithVars, tplVars, botVars, loopVars, shotVars, haikuVars,
      pplVars, refVars, snapVars>>

nonSumVars ==
    <<convVars, faithVars, tplVars, botVars, loopVars, shotVars, haikuVars,
      pplVars, refVars, snapVars>>

nonFaithVars ==
    <<convVars, sumVars, tplVars, botVars, loopVars, shotVars, haikuVars,
      pplVars, refVars, snapVars>>

nonTplVars ==
    <<convVars, sumVars, faithVars, botVars, loopVars, shotVars, haikuVars,
      pplVars, refVars, snapVars>>

nonBotVars ==
    <<convVars, sumVars, faithVars, tplVars, loopVars, shotVars, haikuVars,
      pplVars, refVars, snapVars>>

nonBotSumVars ==
    <<convVars, faithVars, tplVars, loopVars, shotVars, haikuVars, pplVars,
      refVars, snapVars>>

nonLoopVars ==
    <<convVars, sumVars, faithVars, tplVars, botVars, shotVars, haikuVars,
      pplVars, refVars, snapVars>>

nonShotVars ==
    <<convVars, sumVars, faithVars, tplVars, botVars, loopVars, haikuVars,
      pplVars, refVars, snapVars>>

nonHaikuVars ==
    <<convVars, sumVars, faithVars, tplVars, botVars, loopVars, shotVars,
      pplVars, refVars, snapVars>>

nonPplVars ==
    <<convVars, sumVars, faithVars, tplVars, botVars, loopVars, shotVars,
      haikuVars, refVars, snapVars>>

nonRefVars ==
    <<convVars, sumVars, faithVars, tplVars, botVars, loopVars, shotVars,
      haikuVars, pplVars, snapVars>>

nonSnapVars ==
    <<convVars, sumVars, faithVars, tplVars, botVars, loopVars, shotVars,
      haikuVars, pplVars, refVars>>

-----------------------------------------------------------------------------
(* Bounds *)

MaxAdds == 5
MaxStatements == 3
MaxTemplateLen == 3

-----------------------------------------------------------------------------
(* Conversation *)

token_limit == 300

Roles == {"system", "user", "assistant"}

\* lengths of the content strings handed to the model: empty, more than half
\* of the limit, more than the limit
ContentLens == {0, (token_limit \div 2) + 1, token_limit + 1}

NoMessage == [role |-> "none", content |-> 0, n |-> 0]
NoValue == -1

Message(role, content, n) == [role |-> role, content |-> content, n |-> n]

\* (mutant) pops the element before the one asked for
Pop_OffByOne(h, i) ==
    [k \in 1..(Len(h) - 1) |-> IF k < i - 1 THEN h[k] ELSE h[k + 1]]

\* list.pop(i), 1-based
Pop(h, i) == [k \in 1..(Len(h) - 1) |-> IF k < i THEN h[k] ELSE h[k + 1]]

\* for i in range(1, len(history)): if history[i]["role"] != "system": ... break
\* 1-based index of the message the for loop pops, 0 when it ends without break
RECURSIVE ScanFrom(_, _)
ScanFrom(h, i) ==
    IF i > Len(h) THEN 0
    ELSE IF h[i].role # "system" THEN i
    ELSE ScanFrom(h, i + 1)

\* (mutant) pops history[1] whatever its role
ForLoopIndex_AnyRole(h) == IF Len(h) >= 2 THEN 2 ELSE 0

ForLoopIndex(h) == ScanFrom(h, 2)

\* (mutant) the loop stops while one removable message is left
WhileCond_KeepsOne == tokens > token_limit /\ Len(history) > 2

\* the condition of the while loop
WhileCond == tokens > token_limit /\ Len(history) > 1

\* (mutant) inserts the new message right after history[0]
add_message_Insert(role, content) ==
    /\ history' = <<history[1], Message(role, content, adds + 1)>>
                        \o SubSeq(history, 2, Len(history))
    /\ tokens' = tokens + content
    /\ adds' = adds + 1

\* add_message: append, then add the length
add_message(role, content) ==
    /\ history' = Append(history, Message(role, content, adds + 1))
    /\ tokens' = tokens + content
    /\ adds' = adds + 1

\* Conversation(system_prompt)
ConvInit ==
    /\ system_prompt \in ContentLens
    /\ history = <<Message("system", system_prompt, 1)>>
    /\ tokens = system_prompt
    /\ adds = 1
    /\ removed_message = NoMessage
    /\ pc = "idle"
    /\ caller = "none"
    /\ spinning = FALSE
    /\ requests = 0
    /\ evictions = 0
    /\ tokens_at_call = 0
    /\ outcome = "none"
    /\ returned = NoValue

\* conversation.add_message(role, content), called from outside
AddMessageCall ==
    /\ pc = "idle"
    /\ adds < MaxAdds
    /\ \E role \in Roles, content \in ContentLens : add_message(role, content)
    /\ UNCHANGED <<system_prompt, removed_message, pc, caller, spinning,
                   requests, evictions, tokens_at_call, outcome, returned>>
    /\ UNCHANGED nonConvVars

\* conversation.check_token_limit(), called from outside
CheckTokenLimitCall ==
    /\ pc = "idle"
    /\ pc' = "while"
    /\ caller' = "public"
    /\ evictions' = 0
    /\ spinning' = FALSE
    /\ UNCHANGED <<system_prompt, history, tokens, removed_message, adds,
                   requests, tokens_at_call, outcome, returned>>
    /\ UNCHANGED nonConvVars

\* (mutant) the popped message's length is not taken off tokens
LoopEvict_KeepsTokens ==
    /\ pc = "while"
    /\ WhileCond
    /\ ForLoopIndex(history) # 0
    /\ LET i == ForLoopIndex(history) IN
        /\ removed_message' = history[i]
        /\ history' = Pop(history, i)
        /\ tokens' = tokens
    /\ evictions' = evictions + 1
    /\ UNCHANGED <<system_prompt, pc, caller, spinning, adds, requests,
                   tokens_at_call, outcome, returned>>
    /\ UNCHANGED nonConvVars

\* one iteration of the while loop whose for loop finds a non-system message
LoopEvict ==
    /\ pc = "while"
    /\ WhileCond
    /\ ForLoopIndex(history) # 0
    /\ LET i == ForLoopIndex(history) IN
        /\ removed_message' = history[i]
        /\ history' = Pop(history, i)
        /\ tokens' = tokens - history[i].content
    /\ evictions' = evictions + 1
    /\ UNCHANGED <<system_prompt, pc, caller, spinning, adds, requests,
                   tokens_at_call, outcome, returned>>
    /\ UNCHANGED nonConvVars

\* one iteration of the while loop whose for loop ends without a break:
\* nothing is popped and the while condition is tested again
LoopSpin ==
    /\ pc = "while"
    /\ WhileCond
    /\ ForLoopIndex(history) = 0
    /\ spinning' = TRUE
    /\ UNCHANGED <<system_prompt, history, tokens, removed_message, pc,
                   caller, adds, requests, evictions, tokens_at_call,
                   outcome, returned>>
    /\ UNCHANGED nonConvVars

\* the while condition is false: check_token_limit returns to its caller
LoopExit ==
    /\ pc = "while"
    /\ ~WhileCond
    /\ pc' = IF caller = "response" THEN "request" ELSE "idle"
    /\ caller' = "none"
    /\ UNCHANGED <<system_prompt, history, tokens, removed_message, spinning,
                   adds, requests, evictions, tokens_at_call, outcome,
                   returned>>
    /\ UNCHANGED nonConvVars

\* (mutant) response() goes to the request without trimming
ResponseCall_NoTrim ==
    /\ pc = "idle"
    /\ adds + 2 <= MaxAdds
    /\ \E user_input \in ContentLens : add_message("user", user_input)
    /\ pc' = "request"
    /\ caller' = "none"
    /\ requests' = 0
    /\ evictions' = 0
    /\ spinning' = FALSE
    /\ tokens_at_call' = tokens
    /\ UNCHANGED <<system_prompt, removed_message, outcome, returned>>
    /\ UNCHANGED nonConvVars

\* conversation.response(user_input) up to the API request
ResponseCall ==
    /\ pc = "idle"
    /\ adds + 2 <= MaxAdds
    /\ \E user_input \in ContentLens : add_message("user", user_input)
    /\ IF tokens' > token_limit
       THEN pc' = "while" /\ caller' = "response"
       ELSE pc' = "request" /\ caller' = "none"
    /\ requests' = 0
    /\ evictions' = 0
    /\ spinning' = FALSE
    /\ tokens_at_call' = tokens
    /\ UNCHANGED <<system_prompt, removed_message, outcome, returned>>
    /\ UNCHANGED nonConvVars

\* the request succeeds: the reply is appended and returned
ApiReply ==
    /\ pc = "request"
    /\ \E response \in ContentLens :
        /\ add_message("assistant", response)
        /\ returned' = response
    /\ requests' = requests + 1
    /\ outcome' = "returned"
    /\ pc' = "idle"
    /\ UNCHANGED <<system_prompt, removed_message, caller, spinning,
                   evictions, tokens_at_call>>
    /\ UNCHANGED nonConvVars

\* (mutant) a failed request is tried once more
ApiFail_Retry ==
    /\ pc = "request"
    /\ requests' = requests + 1
    /\ outcome' = IF requests = 0 THEN outcome ELSE "raised"
    /\ returned' = IF requests = 0 THEN returned ELSE NoValue
    /\ pc' = IF requests = 0 THEN "request" ELSE "idle"
    /\ UNCHANGED <<system_prompt, history, tokens, removed_message, caller,
                   spinning, adds, evictions, tokens_at_call>>
    /\ UNCHANGED nonConvVars

\* (mutant) a failed request takes the call's user message back
ApiFail_RollsBack ==
    /\ pc = "request"
    /\ requests' = requests + 1
    /\ outcome' = "raised"
    /\ returned' = NoValue
    /\ pc' = "idle"
    /\ IF history[Len(history)].n = adds
       THEN /\ history' = SubSeq(history, 1, Len(history) - 1)
            /\ tokens' = tokens - history[Len(history)].content
       ELSE UNCHANGED <<history, tokens>>
    /\ UNCHANGED <<system_prompt, removed_message, caller, spinning, adds,
                   evictions, tokens_at_call>>
    /\ UNCHANGED nonConvVars

\* the request raises: the exception leaves response()
ApiFail ==
    /\ pc = "request"
    /\ requests' = requests + 1
    /\ outcome' = "raised"
    /\ returned' = NoValue
    /\ pc' = "idle"
    /\ UNCHANGED <<system_prompt, history, tokens, removed_message, caller,
                   spinning, adds, evictions, tokens_at_call>>
    /\ UNCHANGED nonConvVars

\* the conversation variables of a run that does not use Conversation
ConvParked ==
    /\ system_prompt = 0
    /\ history = <<>>
    /\ tokens = 0
    /\ removed_message = NoMessage
    /\ pc = "unused"
    /\ caller = "none"
    /\ spinning = FALSE
    /\ adds = 0
    /\ requests = 0
    /\ evictions = 0
    /\ tokens_at_call = 0
    /\ outcome = "none"
    /\ returned = NoValue

-----------------------------------------------------------------------------
(* Running summary: Summary, generate_summary and the cells that call it *)

\* the fields of Summary
Fields == {"first_name", "last_name", "unresolved_questions", "summary"}

\* Field(default, ...): the default of each field; "[]" stands for the empty
\* list
FieldDefault(f) == IF f = "unresolved_questions" THEN "[]" ELSE "unknown"

\* the annotation of each field
FieldType(f) == IF f = "unresolved_questions" THEN "list" ELSE "str"

\* Summary(**kwargs): a given field takes the given value, a missing one its
\* default, a key that is not a field is ignored
Summary(kwargs) ==
    [f \in Fields |->
        IF f \in DOMAIN kwargs THEN kwargs[f].v ELSE FieldDefault(f)]

\* pydantic validation: every given field has a value of the annotated type
Validates(kwargs) ==
    \A f \in DOMAIN kwargs \cap Fields : kwargs[f].t = FieldType(f)

\* a JSON value of a reply: its type and its text
JsonValue(t, v) == [t |-> t, v |-> v]

\* the values a reply can give to a key
ReplyValues(key) ==
    CASE key = "first_name" ->
            {JsonValue("str", "unknown"), JsonValue("str", "Garfield"),
             JsonValue("num", "7")}
      [] key = "last_name" ->
            {JsonValue("str", "Leopard")}
      [] key = "unresolved_questions" ->
            {JsonValue("list", "[]"), JsonValue("list", "[q]")}
      [] key = "summary" ->
            {JsonValue("str", "s1"), JsonValue("str", "s2")}
      [] OTHER ->
            {JsonValue("str", "x")}

\* the keys of a reply: the fields and one key that is not a field
ReplyKeys == Fields \cup {"mood"}

AllReplyValues == UNION {ReplyValues(k) : k \in ReplyKeys}

\* the JSON objects the model can reply with
Replies ==
    UNION {{r \in [keys -> AllReplyValues] :
                \A k \in keys : r[k] \in ReplyValues(k)} :
            keys \in SUBSET ReplyKeys}

Inputs == {"m1", "m2"}

NoReply == [none |-> JsonValue("none", "none")]

\* current_summary = Summary()
SumInit ==
    /\ current_summary = Summary(<<>>)
    /\ summary_prompt = "none"
    /\ json_content = NoReply
    /\ sum_pc = "render"

SumParked ==
    /\ current_summary = "unused"
    /\ summary_prompt = "none"
    /\ json_content = NoReply
    /\ sum_pc = "unused"

\* summary_prompt = load_template(..., {schema, current_summary.model_dump(),
\* input_message, assistant_response})
RenderSummaryPrompt ==
    /\ sum_pc \in {"render", "updated", "raised"}
    /\ \E input_message \in Inputs, assistant_response \in Inputs :
        summary_prompt' = [current_summary |-> current_summary,
                           input_message |-> input_message,
                           assistant_response |-> assistant_response]
    /\ sum_pc' = "generate"
    /\ UNCHANGED <<current_summary, json_content>>
    /\ UNCHANGED nonSumVars

\* (mutant) the reply is merged into the previous summary: a field the reply
\* leaves out keeps its value
GenerateSummary_Merges ==
    /\ sum_pc = "generate"
    /\ \E reply \in Replies :
        /\ Validates(reply)
        /\ json_content' = reply
        /\ current_summary' =
            [f \in Fields |->
                IF f \in DOMAIN reply THEN reply[f].v ELSE current_summary[f]]
    /\ sum_pc' = "updated"
    /\ UNCHANGED summary_prompt
    /\ UNCHANGED nonSumVars

\* current_summary = generate_summary(summary_prompt), the reply validates
GenerateSummary ==
    /\ sum_pc = "generate"
    /\ \E reply \in Replies :
        /\ Validates(reply)
        /\ json_content' = reply
        /\ current_summary' = Summary(reply)
    /\ sum_pc' = "updated"
    /\ UNCHANGED summary_prompt
    /\ UNCHANGED nonSumVars

\* Summary(**json_content) raises ValidationError: nothing is assigned
GenerateSummaryRaises ==
    /\ sum_pc = "generate"
    /\ \E reply \in Replies :
        /\ ~Validates(reply)
        /\ json_content' = reply
    /\ sum_pc' = "raised"
    /\ UNCHANGED <<current_summary, summary_prompt>>
    /\ UNCHANGED nonSumVars

-----------------------------------------------------------------------------
(* Faithfulness: get_faithfulness *)

\* the values an int verdict of a reply takes; the schema asks for an int
Verdicts == {-1, 0, 1, 2}

StatementTexts == {"s1", "s2"}

\* StatementFaithfulnessAnswer(statement, reason, verdict)
StatementFaithfulnessAnswer(statement, verdict) ==
    [statement |-> statement, verdict |-> verdict]

Abs(x) == IF x < 0 THEN -x ELSE x

RECURSIVE Gcd(_, _)
Gcd(a, b) == IF b = 0 THEN a ELSE Gcd(b, a % b)

\* the number a / b (b > 0), kept in lowest terms
Quotient(a, b) ==
    LET g == Gcd(Abs(a), b) IN [num |-> a \div g, den |-> b \div g]

\* sum([...]): adds the elements from the left, starting at 0
RECURSIVE SumFrom(_, _, _)
SumFrom(xs, i, acc) ==
    IF i > Len(xs) THEN acc ELSE SumFrom(xs, i + 1, acc + xs[i])

sum(xs) == SumFrom(xs, 1, 0)

\* (mutant) counts the answers with a positive verdict instead of adding them
ScoreOf_CountsPositive(answers) ==
    Quotient(Cardinality({i \in 1..Len(answers) : answers[i].verdict > 0}),
             Len(answers))

\* sum([answer.verdict for answer in answers]) / len(answers)
ScoreOf(answers) ==
    Quotient(sum([i \in 1..Len(answers) |-> answers[i].verdict]),
             Len(answers))

NoScore == [num |-> 0, den |-> 0]
NoFaithfulness == [answers |-> <<>>, score |-> NoScore]

Faithfulness(answers, sc) == [answers |-> answers, score |-> sc]

StatementLists ==
    UNION {[1..n -> StatementTexts] : n \in 0..MaxStatements}

\* get_faithfulness(statements, context) is entered
FaithInit ==
    /\ statements \in StatementLists
    /\ faithfulness_answers = <<>>
    /\ score = NoScore
    /\ faith_result = NoFaithfulness
    /\ faith_pc = "loop"

FaithParked ==
    /\ statements = <<>>
    /\ faithfulness_answers = <<>>
    /\ score = NoScore
    /\ faith_result = NoFaithfulness
    /\ faith_pc = "unused"

\* one iteration of the for loop: the judge's reply validates and is appended
JudgeStatement ==
    /\ faith_pc = "loop"
    /\ Len(faithfulness_answers) < Len(statements)
    /\ \E statement \in StatementTexts, verdict \in Verdicts :
        faithfulness_answers' =
            Append(faithfulness_answers,
                   StatementFaithfulnessAnswer(statement, verdict))
    /\ UNCHANGED <<statements, score, faith_result, faith_pc>>
    /\ UNCHANGED nonFaithVars

\* one iteration of the for loop: the reply is not a valid answer and
\* StatementFaithfulnessAnswer(**...) raises
JudgeReplyInvalid ==
    /\ faith_pc = "loop"
    /\ Len(faithfulness_answers) < Len(statements)
    /\ faith_pc' = "raised"
    /\ UNCHANGED <<statements, faithfulness_answers, score, faith_result>>
    /\ UNCHANGED nonFaithVars

\* after the loop: the score is computed and the Faithfulness returned
ComputeScore ==
    /\ faith_pc = "loop"
    /\ Len(faithfulness_answers) = Len(statements)
    /\ Len(faithfulness_answers) > 0
    /\ score' = ScoreOf(faithfulness_answers)
    /\ faith_result' = Faithfulness(faithfulness_answers, score')
    /\ faith_pc' = "done"
    /\ UNCHANGED <<statements, faithfulness_answers>>
    /\ UNCHANGED nonFaithVars

\* after the loop, no answers: the division raises ZeroDivisionError
ComputeScoreRaises ==
    /\ faith_pc = "loop"
    /\ Len(faithfulness_answers) = Len(statements)
    /\ Len(faithfulness_answers) = 0
    /\ faith_pc' = "raised"
    /\ UNCHANGED <<statements, faithfulness_answers, score, faith_result>>
    /\ UNCHANGED nonFaithVars

-----------------------------------------------------------------------------
(* Templates: load_template                                                *)
(*                                                                         *)
(* A string is a sequence of characters.  A template source is the         *)
(* sequence of its items, an item being a literal character or a           *)
(* placeholder {{ name }}.  The Environment is built with the defaults of  *)
(* jinja2 but for loader and autoescape: newline_sequence is "\n",         *)
(* keep_trailing_newline is False, undefined is Undefined, and             *)
(* select_autoescape() enables escaping for the extensions html, htm and   *)
(* xml.  A value that is not a string is rendered through str() and is     *)
(* represented by that text.                                               *)
(***************************************************************************)

Lit(c) == [kind |-> "lit", text |-> c]
Var(name) == [kind |-> "var", text |-> name]

ArgNames == {"x", "y"}
LiteralChars == {"a", "<", "\n", "\r"}
ArgValues == {<<"b">>, <<"<">>, <<"b", "\n">>}
Extensions == {"jinja", "html", "HTML"}

TemplateItems == {Lit(c) : c \in LiteralChars} \cup {Var(n) : n \in ArgNames}

TemplateSources ==
    UNION {[1..n -> TemplateItems] : n \in 0..MaxTemplateLen}

ArgumentDicts == UNION {[names -> ArgValues] : names \in SUBSET ArgNames}

\* str.lower() of an extension
Lower(ext) == IF ext = "HTML" THEN "html" ELSE ext

\* select_autoescape(): escaping is on when the lower-cased template name
\* ends in one of these extensions, off for any other name
select_autoescape(path) == Lower(path.ext) \in {"html", "htm", "xml"}

\* markupsafe.escape of one character
EscapeChar(c) ==
    CASE c = "&" -> <<"&", "a", "m", "p", ";">>
      [] c = "<" -> <<"&", "l", "t", ";">>
      [] c = ">" -> <<"&", "g", "t", ";">>
      [] c = "'" -> <<"&", "#", "3", "9", ";">>
      [] c = "\"" -> <<"&", "#", "3", "4", ";">>
      [] OTHER -> <<c>>

RECURSIVE escape(_)
escape(value) ==
    IF value = <<>> THEN <<>>
    ELSE EscapeChar(Head(value)) \o escape(Tail(value))

\* the lexer splits the source at \r\n, \r and \n and joins the lines with
\* newline_sequence
RECURSIVE NormalizeNewlines(_)
NormalizeNewlines(source) ==
    IF source = <<>> THEN <<>>
    ELSE IF Head(source) = Lit("\r")
         THEN IF Len(source) >= 2 /\ source[2] = Lit("\n")
              THEN <<Lit("\n")>> \o NormalizeNewlines(SubSeq(source, 3, Len(source)))
              ELSE <<Lit("\n")>> \o NormalizeNewlines(Tail(source))
         ELSE <<Head(source)>> \o NormalizeNewlines(Tail(source))

\* (mutant) keep_trailing_newline=True
StripTrailingNewline_Keep(source) == source

\* the lexer drops the last line when it is empty: one newline at the end of
\* the source goes
StripTrailingNewline(source) ==
    IF Len(source) > 0 /\ source[Len(source)] = Lit("\n")
    THEN SubSeq(source, 1, Len(source) - 1)
    ELSE source

\* what one item renders to: a literal is itself, a placeholder the value of
\* its name (escaped under autoescape), nothing when the name is undefined
RenderItem(item, args, autoescape) ==
    IF item.kind = "lit" THEN <<item.text>>
    ELSE IF item.text \in DOMAIN args
         THEN IF autoescape THEN escape(args[item.text]) ELSE args[item.text]
         ELSE <<>>

\* template.render(**arguments): the items are rendered in order and joined
RECURSIVE RenderFrom(_, _, _, _, _)
RenderFrom(items, i, args, autoescape, out) ==
    IF i > Len(items) THEN out
    ELSE RenderFrom(items, i + 1, args, autoescape,
                    out \o RenderItem(items[i], args, autoescape))

render(items, args, autoescape) == RenderFrom(items, 1, args, autoescape, <<>>)

load_template(path, source, args) ==
    render(StripTrailingNewline(NormalizeNewlines(source)), args,
           select_autoescape(path))

NoString == <<"<none>">>

\* load_template(template_filepath, arguments) is called
TplInit ==
    /\ template_filepath \in [stem : {"prompts/p"}, ext : Extensions]
    /\ template_source \in TemplateSources
    /\ arguments \in ArgumentDicts
    /\ rendered = NoString
    /\ tpl_pc = "call"

TplParked ==
    /\ template_filepath = [stem |-> "", ext |-> ""]
    /\ template_source = <<>>
    /\ arguments = <<>>
    /\ rendered = NoString
    /\ tpl_pc = "unused"

LoadTemplate ==
    /\ tpl_pc = "call"
    /\ rendered' = load_template(template_filepath, template_source, arguments)
    /\ tpl_pc' = "returned"
    /\ UNCHANGED <<template_filepath, template_source, arguments>>
    /\ UNCHANGED nonTplVars

-----------------------------------------------------------------------------
(* Summary chatbot: the cells of one turn                                  *)

MaxTurns == 2

ChatbotReplies == {"r1", "r2"}

NoInput == "none"
NoChatPrompt == [running_summary |-> "none", input_message |-> NoInput]
NoResponse == [text |-> "none", turn |-> 0]

\* load_template("prompts/summary/bot_prompt.jinja", {running_summary,
\* input_message}): the prompt is represented by the arguments rendered in it
ChatPrompt(running_summary, input_message) ==
    [running_summary |-> running_summary, input_message |-> input_message]

\* load_template("prompts/summary/summary_system_prompt.jinja", {schema,
\* current_summary, input_message, assistant_response})
SummaryPrompt(summary, input_message, assistant_response) ==
    [current_summary |-> summary,
     input_message |-> input_message,
     assistant_response |-> assistant_response]

\* the replies of the summariser tried in a turn: those about the first
\* name and the summary text
TurnReplies == {r \in Replies : DOMAIN r \subseteq {"first_name", "summary"}}

\* the summaries the earlier cells can have left in current_summary
Summaries == {Summary(r) : r \in {q \in TurnReplies : Validates(q)}}

\* the state before the first turn
BotInit ==
    /\ current_summary \in Summaries
    /\ summary_prompt = "none"
    /\ json_content = NoReply
    /\ sum_pc = "chatbot"
    /\ bot_user_input = NoInput
    /\ chat_prompt = NoChatPrompt
    /\ chat_sent = NoChatPrompt
    /\ bot_response = NoResponse
    /\ turn = 0
    /\ step_log = <<>>
    /\ summary_before = current_summary
    /\ bot_pc = "input"

BotParked ==
    /\ bot_user_input = NoInput
    /\ chat_prompt = NoChatPrompt
    /\ chat_sent = NoChatPrompt
    /\ bot_response = NoResponse
    /\ turn = 0
    /\ step_log = <<>>
    /\ summary_before = "unused"
    /\ bot_pc = "unused"

\* cell of steps 1 and 2: user_input = ...; chat_prompt = load_template(...)
CellChatPrompt ==
    /\ bot_pc \in {"input", "raised"}
    /\ turn < MaxTurns
    /\ \E text \in Inputs :
        /\ bot_user_input' = text
        /\ chat_prompt' = ChatPrompt(current_summary, text)
    /\ turn' = turn + 1
    /\ step_log' = <<1, 2>>
    /\ summary_before' = current_summary
    /\ bot_pc' = "chatbot"
    /\ UNCHANGED <<chat_sent, bot_response>>
    /\ UNCHANGED sumVars
    /\ UNCHANGED nonBotSumVars

\* cell of step 3: response = client.chat.completions.create(...chat_prompt)
CellChatbot ==
    /\ bot_pc = "chatbot"
    /\ chat_sent' = chat_prompt
    /\ \E text \in ChatbotReplies : bot_response' = [text |-> text, turn |-> turn]
    /\ step_log' = Append(step_log, 3)
    /\ bot_pc' = "summary"
    /\ UNCHANGED <<bot_user_input, chat_prompt, turn, summary_before>>
    /\ UNCHANGED sumVars
    /\ UNCHANGED nonBotSumVars

\* cell of step 3, the request raises: response keeps its old value
CellChatbotRaises ==
    /\ bot_pc = "chatbot"
    /\ chat_sent' = chat_prompt
    /\ bot_pc' = "raised"
    /\ UNCHANGED <<bot_user_input, chat_prompt, bot_response, turn, step_log,
                   summary_before>>
    /\ UNCHANGED sumVars
    /\ UNCHANGED nonBotSumVars

\* (mutant) the cell of step 4 is run before the cell of step 3
CellUpdateSummary_BeforeChatbot ==
    /\ bot_pc = "chatbot"
    /\ summary_prompt' =
        SummaryPrompt(current_summary, bot_user_input, bot_response.text)
    /\ \E reply \in TurnReplies :
        /\ Validates(reply)
        /\ json_content' = reply
        /\ current_summary' = Summary(reply)
    /\ step_log' = Append(step_log, 4)
    /\ bot_pc' = "chatbot"
    /\ UNCHANGED sum_pc
    /\ UNCHANGED <<bot_user_input, chat_prompt, chat_sent, bot_response, turn,
                   summary_before>>
    /\ UNCHANGED nonBotSumVars

\* cell of step 4: summary_prompt = load_template(...);
\* current_summary = generate_summary(summary_prompt)
CellUpdateSummary ==
    /\ bot_pc = "summary"
    /\ summary_prompt' =
        SummaryPrompt(current_summary, bot_user_input, bot_response.text)
    /\ \E reply \in TurnReplies :
        /\ Validates(reply)
        /\ json_content' = reply
        /\ current_summary' = Summary(reply)
    /\ step_log' = Append(step_log, 4)
    /\ bot_pc' = "input"
    /\ UNCHANGED sum_pc
    /\ UNCHANGED <<bot_user_input, chat_prompt, chat_sent, bot_response, turn,
                   summary_before>>
    /\ UNCHANGED nonBotSumVars

\* cell of step 4, generate_summary raises: the prompt was rendered, the
\* summary is not assigned
CellUpdateSummaryRaises ==
    /\ bot_pc = "summary"
    /\ summary_prompt' =
        SummaryPrompt(current_summary, bot_user_input, bot_response.text)
    /\ \E reply \in TurnReplies :
        /\ ~Validates(reply)
        /\ json_content' = reply
    /\ bot_pc' = "raised"
    /\ UNCHANGED <<current_summary, sum_pc>>
    /\ UNCHANGED <<bot_user_input, chat_prompt, chat_sent, bot_response, turn,
                   step_log, summary_before>>
    /\ UNCHANGED nonBotSumVars

-----------------------------------------------------------------------------
(* Interactive chat loop on system_state["conversation_history"]           *)

MaxIterations == 3

ExitWords == {"exit", "quit", "bye"}

\* what input() returns: ordinary text and spellings of the exit words
LoopInputs == {"hi", "why", "exit", "Quit", "BYE"}

LoopReplies == {"a1", "a2"}

\* str.lower()
LowerCase(text) ==
    CASE text = "Quit" -> "quit"
      [] text = "BYE" -> "bye"
      [] OTHER -> text

ChatMessage(role, content) == [role |-> role, content |-> content]

\* the history the cells before the loop leave: system prompt, first user
\* prompt, first reply
LoopInit ==
    /\ conversation_history = <<ChatMessage("system", "system_prompt"),
                                ChatMessage("user", "user_prompt"),
                                ChatMessage("assistant", "a0")>>
    /\ loop_input = "none"
    /\ request_sent = <<>>
    /\ history_at_iteration = conversation_history
    /\ iterations = 0
    /\ loop_pc = "input"

LoopParked ==
    /\ conversation_history = <<>>
    /\ loop_input = "none"
    /\ request_sent = <<>>
    /\ history_at_iteration = <<>>
    /\ iterations = 0
    /\ loop_pc = "unused"

\* user_input is an exit word: break
LoopBreak ==
    /\ loop_pc = "input"
    /\ \E text \in LoopInputs :
        /\ LowerCase(text) \in ExitWords
        /\ loop_input' = text
    /\ history_at_iteration' = conversation_history
    /\ loop_pc' = "exited"
    /\ UNCHANGED <<conversation_history, request_sent, iterations>>
    /\ UNCHANGED nonLoopVars

\* user_input is not an exit word: it is appended as a user message
LoopUserMessage ==
    /\ loop_pc = "input"
    /\ iterations < MaxIterations
    /\ \E text \in LoopInputs :
        /\ LowerCase(text) \notin ExitWords
        /\ loop_input' = text
        /\ conversation_history' =
            Append(conversation_history, ChatMessage("user", text))
    /\ history_at_iteration' = conversation_history
    /\ iterations' = iterations + 1
    /\ loop_pc' = "request"
    /\ UNCHANGED request_sent
    /\ UNCHANGED nonLoopVars

\* (mutant) the request carries the new user message alone
LoopReply_SendsLastOnly ==
    /\ loop_pc = "request"
    /\ request_sent' = <<conversation_history[Len(conversation_history)]>>
    /\ \E assistant_response \in LoopReplies :
        conversation_history' =
            Append(conversation_history,
                   ChatMessage("assistant", assistant_response))
    /\ loop_pc' = "input"
    /\ UNCHANGED <<loop_input, history_at_iteration, iterations>>
    /\ UNCHANGED nonLoopVars

\* the request is sent the list itself and answered: the reply is appended
LoopReply ==
    /\ loop_pc = "request"
    /\ request_sent' = conversation_history
    /\ \E assistant_response \in LoopReplies :
        conversation_history' =
            Append(conversation_history,
                   ChatMessage("assistant", assistant_response))
    /\ loop_pc' = "input"
    /\ UNCHANGED <<loop_input, history_at_iteration, iterations>>
    /\ UNCHANGED nonLoopVars

\* the request raises: the exception ends the loop and the cell
LoopRequestRaises ==
    /\ loop_pc = "request"
    /\ request_sent' = conversation_history
    /\ loop_pc' = "raised"
    /\ UNCHANGED <<conversation_history, loop_input, history_at_iteration,
                   iterations>>
    /\ UNCHANGED nonLoopVars

\* the cell is run again
LoopRerun ==
    /\ loop_pc \in {"exited", "raised"}
    /\ loop_pc' = "input"
    /\ UNCHANGED <<conversation_history, loop_input, request_sent,
                   history_at_iteration, iterations>>
    /\ UNCHANGED nonLoopVars

-----------------------------------------------------------------------------
(* Few-shot classification loop over zipped                                *)

MaxPairs == 3

Haikus == {"h1", "h2"}

Targets == {"human", "computer"}

ShotReplies == {"human", "computer"}

\* the system prompt and the four example pairs
FewShotMessages ==
    <<ChatMessage("system", "system_prompt"),
      ChatMessage("user", "example1"), ChatMessage("assistant", "human"),
      ChatMessage("user", "example2"), ChatMessage("assistant", "computer"),
      ChatMessage("user", "example3"), ChatMessage("assistant", "human"),
      ChatMessage("user", "example4"), ChatMessage("assistant", "computer")>>

\* zipped = list(zip(all_haikus, targets)), shuffled: every order
ZippedLists ==
    UNION {[1..len -> [haiku : Haikus, target : Targets]] : len \in 0..MaxPairs}

ShotInit ==
    /\ messages = FewShotMessages
    /\ zipped \in ZippedLists
    /\ result = <<>>
    /\ shot_index = 0
    /\ shot_requests = <<>>
    /\ shot_pc = "for"

ShotParked ==
    /\ messages = <<>>
    /\ zipped = <<>>
    /\ result = <<>>
    /\ shot_index = 0
    /\ shot_requests = <<>>
    /\ shot_pc = "unused"

\* (mutant) the haiku is appended to the shared list
ShotIteration_AppendsInPlace ==
    /\ shot_pc = "for"
    /\ shot_index < Len(zipped)
    /\ LET pair == zipped[shot_index + 1]
           request == Append(messages, ChatMessage("user", pair.haiku))
       IN  /\ messages' = request
           /\ shot_requests' = Append(shot_requests, request)
           /\ \E reply \in ShotReplies :
                result' = Append(result, <<pair.haiku, pair.target, reply>>)
    /\ shot_index' = shot_index + 1
    /\ UNCHANGED <<zipped, shot_pc>>
    /\ UNCHANGED nonShotVars

\* one iteration: the request is sent messages + [user haiku], a new list,
\* and the reply goes to result
ShotIteration ==
    /\ shot_pc = "for"
    /\ shot_index < Len(zipped)
    /\ LET pair == zipped[shot_index + 1]
           request == messages \o <<ChatMessage("user", pair.haiku)>>
       IN  /\ shot_requests' = Append(shot_requests, request)
           /\ \E reply \in ShotReplies :
                result' = Append(result, <<pair.haiku, pair.target, reply>>)
    /\ shot_index' = shot_index + 1
    /\ UNCHANGED <<messages, zipped, shot_pc>>
    /\ UNCHANGED nonShotVars

\* the request raises: the exception ends the loop and the cell
ShotRequestRaises ==
    /\ shot_pc = "for"
    /\ shot_index < Len(zipped)
    /\ LET pair == zipped[shot_index + 1]
           request == messages \o <<ChatMessage("user", pair.haiku)>>
       IN  shot_requests' = Append(shot_requests, request)
    /\ shot_index' = shot_index + 1
    /\ shot_pc' = "raised"
    /\ UNCHANGED <<messages, zipped, result>>
    /\ UNCHANGED nonShotVars

\* zipped is exhausted: the for loop ends
ShotLoopEnds ==
    /\ shot_pc = "for"
    /\ shot_index = Len(zipped)
    /\ shot_pc' = "done"
    /\ UNCHANGED <<messages, zipped, result, shot_index, shot_requests>>
    /\ UNCHANGED nonShotVars

-----------------------------------------------------------------------------
(* is_haiku and haiku_check                                                *)

\* A response is a sequence of tokens: a word of the dictionary with 5 or
\* with 7 syllables, a word that is not in the dictionary, a punctuation
\* mark of the strip set, a space, a newline.
MaxTokens == 6

WordSyllables == [w5 |-> 5, w7 |-> 7]

ResponseTokens == {"w5", "w7", "zz", ",", " ", "\n"}

Punctuation == {","}

Responses == UNION {[1..len -> ResponseTokens] : len \in 0..MaxTokens}

\* the values is_haiku returns, with their Python type
PyBool(value) == [kind |-> "bool", bool |-> value]

PyStr(value) == [kind |-> "str", str |-> value]

PyList(value) == [kind |-> "list", list |-> value]

NotReturned == [kind |-> "none"]

\* str.split(sep): the pieces between the separators, empty ones included
RECURSIVE split(_, _)
split(str, sep) ==
    IF \A i \in 1..Len(str) : str[i] # sep
    THEN <<str>>
    ELSE LET i == CHOOSE i \in 1..Len(str) :
                    /\ str[i] = sep
                    /\ \A j \in 1..(i - 1) : str[j] # sep
         IN  <<SubSeq(str, 1, i - 1)>>
                \o split(SubSeq(str, i + 1, Len(str)), sep)

\* str.split(): the runs between whitespace, none of them empty
split_whitespace(str) ==
    SelectSeq(split(str, " "), LAMBDA piece : Len(piece) > 0)

\* str.strip(chars): leading and trailing characters of chars removed
RECURSIVE strip(_, _)
strip(str, chars) ==
    IF Len(str) = 0 THEN str
    ELSE IF str[1] \in chars THEN strip(Tail(str), chars)
    ELSE IF str[Len(str)] \in chars
         THEN strip(SubSeq(str, 1, Len(str) - 1), chars)
    ELSE str

\* get_syllable_count(word): the count of a dictionary word, else None
get_syllable_count(word) ==
    IF Len(word) = 1 /\ word[1] \in DOMAIN WordSyllables
    THEN WordSyllables[word[1]]
    ELSE NoValue

\* sum([...]) over a line's counts; NoValue when it raises (None in the list)
RECURSIVE sum_counts(_)
sum_counts(counts) ==
    IF Len(counts) = 0 THEN 0
    ELSE LET rest == sum_counts(Tail(counts))
         IN  IF counts[1] = NoValue \/ rest = NoValue THEN NoValue
             ELSE counts[1] + rest

\* (mutant) more than three lines pass the check of the line count
is_haiku_AtLeastThreeLines(response) ==
    LET lines == split(response, "\n")
        words == [k \in 1..3 |->
                    LET line == split_whitespace(lines[k])
                    IN  [w \in 1..Len(line) |-> strip(line[w], Punctuation)]]
        syllables == [k \in 1..3 |->
                        sum_counts([w \in 1..Len(words[k]) |->
                                        get_syllable_count(words[k][w])])]
    IN  IF Len(lines) < 3 THEN PyBool(FALSE)
        ELSE IF \E k \in 1..3 : syllables[k] = NoValue
        THEN PyStr("Error: could not count syllables")
        ELSE IF syllables = <<5, 7, 5>> THEN PyBool(TRUE)
        ELSE PyList(syllables)

is_haiku(response) ==
    LET lines == split(response, "\n")
        words == [k \in 1..Len(lines) |->
                    LET line == split_whitespace(lines[k])
                    IN  [w \in 1..Len(line) |-> strip(line[w], Punctuation)]]
        syllables == [k \in 1..Len(lines) |->
                        sum_counts([w \in 1..Len(words[k]) |->
                                        get_syllable_count(words[k][w])])]
    IN  IF Len(lines) # 3 THEN PyBool(FALSE)
        ELSE IF \E k \in 1..3 : syllables[k] = NoValue
        THEN PyStr("Error: could not count syllables")
        ELSE IF syllables = <<5, 7, 5>> THEN PyBool(TRUE)
        ELSE PyList(syllables)

\* haiku_check with one theme, before chat_response has answered
HaikuInit ==
    /\ haiku_response \in Responses
    /\ haiku_returned = NotReturned
    /\ responses = <<>>
    /\ haiku_pc = "is_haiku"

HaikuParked ==
    /\ haiku_response = <<>>
    /\ haiku_returned = NotReturned
    /\ responses = <<>>
    /\ haiku_pc = "unused"

\* is_haiku(response) is evaluated
IsHaikuCall ==
    /\ haiku_pc = "is_haiku"
    /\ haiku_returned' = is_haiku(haiku_response)
    /\ haiku_pc' = "append"
    /\ UNCHANGED <<haiku_response, responses>>
    /\ UNCHANGED nonHaikuVars

\* responses.append((response, is_haiku(response)))
HaikuCheckAppend ==
    /\ haiku_pc = "append"
    /\ responses' = Append(responses, <<haiku_response, haiku_returned>>)
    /\ haiku_pc' = "returned"
    /\ UNCHANGED <<haiku_response, haiku_returned>>
    /\ UNCHANGED nonHaikuVars

-----------------------------------------------------------------------------
(* Perplexity of a completion                                              *)

\* Log-probabilities are whole numbers of a fixed unit; the mean is kept as
\* an exact fraction and the exponential as the number it is taken of:
\* rounding of floating point is not modelled.
MaxLogProbs == 4

NumQuestions == 2

LogProbs == {-3, -2, -1, 0}

\* completion.choices[0].logprobs.content of a completion with tokens
LogProbLists == UNION {[1..len -> LogProbs] : len \in 1..MaxLogProbs}

np_mean(xs) == Quotient(sum(xs), Len(xs))

Negative(q) == [num |-> -q.num, den |-> q.den]

\* np.exp(q), the exponential of the fraction q
np_exp(q) == [exp_of |-> q]

NoPerplexity == [exp_of |-> NoScore]

PplInit ==
    /\ log_probs = <<>>
    /\ perplexity_score = NoPerplexity
    /\ question = 0
    /\ ppl_pc = "completion"

PplParked ==
    /\ log_probs = <<>>
    /\ perplexity_score = NoPerplexity
    /\ question = 0
    /\ ppl_pc = "unused"

\* get_completion answers; log_probs takes the tokens' log-probabilities
GetCompletion ==
    /\ ppl_pc = "completion"
    /\ question < NumQuestions
    /\ log_probs' \in LogProbLists
    /\ ppl_pc' = "score"
    /\ UNCHANGED <<perplexity_score, question>>
    /\ UNCHANGED nonPplVars

\* get_completion raises: the exception ends the loop and the cell
GetCompletionRaises ==
    /\ ppl_pc = "completion"
    /\ question < NumQuestions
    /\ ppl_pc' = "raised"
    /\ UNCHANGED <<log_probs, perplexity_score, question>>
    /\ UNCHANGED nonPplVars

\* (mutant) the mean is not negated
ComputePerplexity_NoNegation ==
    /\ ppl_pc = "score"
    /\ perplexity_score' = np_exp(np_mean(log_probs))
    /\ question' = question + 1
    /\ ppl_pc' = "completion"
    /\ UNCHANGED log_probs
    /\ UNCHANGED nonPplVars

\* perplexity_score = np.exp(-np.mean(log_probs)), then the print
ComputePerplexity ==
    /\ ppl_pc = "score"
    /\ perplexity_score' = np_exp(Negative(np_mean(log_probs)))
    /\ question' = question + 1
    /\ ppl_pc' = "completion"
    /\ UNCHANGED log_probs
    /\ UNCHANGED nonPplVars

-----------------------------------------------------------------------------
(* Reference trimming operation, run beside check_token_limit             *)

NoStart == [history |-> <<>>, tokens |-> 0, adds |-> 0]

NoResult == [history |-> <<>>, tokens |-> 0]

\* while tokens > token_limit and len(history) > 1:
\*     remove history[1] and subtract its content length from tokens
RECURSIVE Reference(_, _)
Reference(h, t) ==
    IF t > token_limit /\ Len(h) > 1
    THEN Reference(<<h[1]>> \o SubSeq(h, 3, Len(h)), t - h[2].content)
    ELSE [history |-> h, tokens |-> t]

RefParked ==
    /\ ref_start = NoStart
    /\ ref_result = NoResult

\* check_token_limit has been entered and has not run an iteration yet: the
\* reference is run from the same history and tokens
ReferenceRun ==
    /\ pc = "while"
    /\ evictions = 0
    /\ ~spinning
    /\ ref_start # [history |-> history, tokens |-> tokens, adds |-> adds]
    /\ ref_start' = [history |-> history, tokens |-> tokens, adds |-> adds]
    /\ ref_result' = Reference(history, tokens)
    /\ UNCHANGED nonRefVars

-----------------------------------------------------------------------------
(* The state a response() call starts from, noted beside the conversation *)

SnapParked == before_call = NoStart

\* no call is running: history, tokens and adds are noted
NoteState ==
    /\ pc = "idle"
    /\ before_call # [history |-> history, tokens |-> tokens, adds |-> adds]
    /\ before_call' = [history |-> history, tokens |-> tokens, adds |-> adds]
    /\ UNCHANGED nonSnapVars

-----------------------------------------------------------------------------
(* Specifications *)

Init ==
    /\ ConvInit
    /\ SumParked
    /\ FaithParked
    /\ TplParked
    /\ BotParked
    /\ LoopParked
    /\ ShotParked
    /\ HaikuParked
    /\ PplParked
    /\ RefParked
    /\ SnapParked

Next ==
    \/ AddMessageCall
    \/ CheckTokenLimitCall
    \/ LoopEvict
    \/ LoopSpin
    \/ LoopExit
    \/ ResponseCall
    \/ ApiReply
    \/ ApiFail

Spec == Init /\ [][Next]_vars

\* a Conversation used only through its constructor and response()
NextResponseOnly ==
    \/ ResponseCall
    \/ LoopEvict
    \/ LoopExit
    \/ ApiReply
    \/ ApiFail

SpecResponseOnly == Init /\ [][NextResponseOnly]_vars

SumNext ==
    \/ RenderSummaryPrompt
    \/ GenerateSummary
    \/ GenerateSummaryRaises

InitSummary ==
    /\ SumInit
    /\ ConvParked
    /\ FaithParked
    /\ TplParked
    /\ BotParked
    /\ LoopParked
    /\ ShotParked
    /\ HaikuParked
    /\ PplParked
    /\ RefParked
    /\ SnapParked

SpecSummary == InitSummary /\ [][SumNext]_vars

FaithNext ==
    \/ JudgeStatement
    \/ JudgeReplyInvalid
    \/ ComputeScore
    \/ ComputeScoreRaises

InitFaithfulness ==
    /\ FaithInit
    /\ ConvParked
    /\ SumParked
    /\ TplParked
    /\ BotParked
    /\ LoopParked
    /\ ShotParked
    /\ HaikuParked
    /\ PplParked
    /\ RefParked
    /\ SnapParked

SpecFaithfulness == InitFaithfulness /\ [][FaithNext]_vars

TplNext == LoadTemplate

InitTemplate ==
    /\ TplInit
    /\ ConvParked
    /\ SumParked
    /\ FaithParked
    /\ BotParked
    /\ LoopParked
    /\ ShotParked
    /\ HaikuParked
    /\ PplParked
    /\ RefParked
    /\ SnapParked

SpecTemplate == InitTemplate /\ [][TplNext]_vars

BotNext ==
    \/ CellChatPrompt
    \/ CellChatbot
    \/ CellChatbotRaises
    \/ CellUpdateSummary
    \/ CellUpdateSummaryRaises

InitChatbot ==
    /\ BotInit
    /\ ConvParked
    /\ FaithParked
    /\ TplParked
    /\ LoopParked
    /\ ShotParked
    /\ HaikuParked
    /\ PplParked
    /\ RefParked
    /\ SnapParked

SpecChatbot == InitChatbot /\ [][BotNext]_vars

LoopNext ==
    \/ LoopBreak
    \/ LoopUserMessage
    \/ LoopReply
    \/ LoopRequestRaises
    \/ LoopRerun

InitLoop ==
    /\ LoopInit
    /\ ConvParked
    /\ SumParked
    /\ FaithParked
    /\ TplParked
    /\ BotParked
    /\ ShotParked
    /\ HaikuParked
    /\ PplParked
    /\ RefParked
    /\ SnapParked

SpecLoop == InitLoop /\ [][LoopNext]_vars

ShotNext ==
    \/ ShotIteration
    \/ ShotRequestRaises
    \/ ShotLoopEnds

InitFewShot ==
    /\ ShotInit
    /\ ConvParked
    /\ SumParked
    /\ FaithParked
    /\ TplParked
    /\ BotParked
    /\ LoopParked
    /\ HaikuParked
    /\ PplParked
    /\ RefParked
    /\ SnapParked

SpecFewShot == InitFewShot /\ [][ShotNext]_vars

HaikuNext ==
    \/ IsHaikuCall
    \/ HaikuCheckAppend

InitHaiku ==
    /\ HaikuInit
    /\ ConvParked
    /\ SumParked
    /\ FaithParked
    /\ TplParked
    /\ BotParked
    /\ LoopParked
    /\ ShotParked
    /\ PplParked
    /\ RefParked
    /\ SnapParked

SpecHaiku == InitHaiku /\ [][HaikuNext]_vars

PplNext ==
    \/ GetCompletion
    \/ GetCompletionRaises
    \/ ComputePerplexity

InitPerplexity ==
    /\ PplInit
    /\ ConvParked
    /\ SumParked
    /\ FaithParked
    /\ TplParked
    /\ BotParked
    /\ LoopParked
    /\ ShotParked
    /\ HaikuParked
    /\ RefParked
    /\ SnapParked

SpecPerplexity == InitPerplexity /\ [][PplNext]_vars

\* response() only, with the reference run at the entry of check_token_limit
NextReference ==
    \/ ResponseCall
    \/ LoopEvict
    \/ LoopExit
    \/ ApiReply
    \/ ApiFail
    \/ ReferenceRun

SpecReference == Init /\ [][NextReference]_vars

\* add_message and response(), with the state noted between the calls
NextNoted ==
    \/ AddMessageCall
    \/ ResponseCall
    \/ LoopEvict
    \/ LoopSpin
    \/ LoopExit
    \/ ApiReply
    \/ ApiFail
    \/ NoteState

SpecNoted == Init /\ [][NextNoted]_vars

-----------------------------------------------------------------------------
(* Claims about Conversation *)

\* the oldest non-system message: the smallest index past the first whose
\* role is not "system" (1-based), 0 when there is none
HasNonSystem(h) == \E i \in 2..Len(h) : h[i].role # "system"
OldestNonSystem(h) ==
    IF HasNonSystem(h)
    THEN CHOOSE i \in 2..Len(h) :
            /\ h[i].role # "system"
            /\ \A j \in 2..(i - 1) : h[j].role = "system"
    ELSE 0

\* C1: every step that shrinks history removes exactly one message, the
\* oldest non-system message past history[0]; the messages before it and
\* after it are kept as they were, and tokens drops by its length.
C1_EvictsOldestNonSystem ==
    [][Len(history') < Len(history) =>
        /\ HasNonSystem(history)
        /\ LET i == OldestNonSystem(history) IN
            /\ Len(history') = Len(history) - 1
            /\ removed_message' = history[i]
            /\ \A k \in 1..(i - 1) : history'[k] = history[k]
            /\ \A k \in i..Len(history') : history'[k] = history[k + 1]
            /\ tokens' = tokens - history[i].content]_vars

\* an eviction that skipped a system message at index 1 and removed a later one
C1_Witness ==
    /\ removed_message # NoMessage
    /\ Len(history) >= 2
    /\ history[2].role = "system"
    /\ history[2].n < removed_message.n

\* C2: history[0] is always the system message the constructor created.
C2_SystemMessageKept ==
    /\ Len(history) >= 1
    /\ history[1] = Message("system", system_prompt, 1)

\* everything else was evicted and tokens is still over the limit
C2_Witness ==
    /\ evictions >= 2
    /\ Len(history) = 1
    /\ tokens > token_limit

\* C3: when response() issues its request, tokens is within the limit or
\* only the system message is left.
C3_TrimmedAtRequest ==
    pc = "request" => (tokens <= token_limit \/ Len(history) = 1)

\* the trimming popped more than one message and stopped with some left
C3_Witness ==
    /\ pc = "request"
    /\ evictions >= 2
    /\ Len(history) > 1
    /\ tokens <= token_limit
    /\ tokens > 0

\* C4: a response() call that begins with tokens over the limit, left so by
\* a response() call that returned, evicts at least one message before its
\* request.
C4_TrimmedInNextResponse ==
    (pc = "request" /\ outcome = "returned" /\ tokens_at_call > token_limit)
        => evictions >= 1

C4_Witness ==
    /\ pc = "request"
    /\ outcome = "returned"
    /\ tokens_at_call > token_limit
    /\ evictions >= 1

\* C5: the messages of history are in the order in which they were added.
C5_Chronological ==
    \A i, j \in 1..Len(history) : i < j => history[i].n < history[j].n

\* a message was evicted from between two survivors
C5_Witness ==
    /\ removed_message # NoMessage
    /\ Len(history) >= 3
    /\ history[2].n < removed_message.n
    /\ removed_message.n < history[3].n

\* C10: a response() call issues one request; the step that issues it ends
\* the call, and when it raises nothing is appended and nothing is returned.
C10_OneRequestNoRetry ==
    /\ [](requests <= 1)
    /\ [][pc = "request" =>
            /\ pc' = "idle"
            /\ requests' = 1
            /\ (outcome' = "raised" =>
                    /\ history' = history
                    /\ tokens' = tokens
                    /\ returned' = NoValue)]_vars

\* a call whose request failed: the last message is still the user's
C10_Witness ==
    /\ pc = "idle"
    /\ outcome = "raised"
    /\ requests = 1
    /\ history[Len(history)].role = "user"
    /\ history[Len(history)].n = adds

\* the lengths of the contents of a list of messages, added up
RECURSIVE ContentTotal(_)
ContentTotal(h) ==
    IF h = <<>> THEN 0 ELSE Head(h).content + ContentTotal(Tail(h))

\* C17: tokens is the sum of len(content) over the messages in history.
C17_TokensMatchHistory == tokens = ContentTotal(history)

\* after evictions, with messages of positive length left
C17_Witness ==
    /\ evictions >= 2
    /\ Len(history) >= 2
    /\ tokens > history[1].content
    /\ pc = "idle"

\* C18: the history response() sends ends with the user message of the call.
C18_RequestEndsWithUserInput ==
    pc = "request" =>
        /\ history[Len(history)].role = "user"
        /\ history[Len(history)].n = adds

\* C19: every iteration of the while loop of check_token_limit removes a
\* message or leaves the loop.
C19_LoopProgress ==
    [][pc = "while" => (Len(history') < Len(history) \/ pc' # "while")]_vars

\* C20: the history response() sends is the system message followed by
\* user, assistant, user, ... in strict alternation.
C20_Alternates ==
    pc = "request" =>
        /\ history[1].role = "system"
        /\ \A k \in 2..Len(history) :
            history[k].role = IF k % 2 = 0 THEN "user" ELSE "assistant"

-----------------------------------------------------------------------------
(* Claims about the running summary *)

\* C6: after an update every field of current_summary is the reply's value
\* for it, or the schema default when the reply has no such key; nothing is
\* kept from the previous summary.
C6_SummaryOverwritten ==
    sum_pc = "updated" =>
        \A f \in Fields :
            current_summary[f] =
                IF f \in DOMAIN json_content
                THEN json_content[f].v
                ELSE FieldDefault(f)

\* the previous summary knew the first name, the reply leaves it out, and
\* the new summary has the default
C6_Witness ==
    /\ sum_pc = "updated"
    /\ summary_prompt.current_summary.first_name = "Garfield"
    /\ "first_name" \notin DOMAIN json_content
    /\ current_summary.first_name = "unknown"

-----------------------------------------------------------------------------
(* Claims about get_faithfulness *)

VerdictSum(answers) ==
    LET RECURSIVE Total(_)
        Total(k) == IF k = 0 THEN 0 ELSE Total(k - 1) + answers[k].verdict
    IN Total(Len(answers))

Inferable(answers) == {i \in 1..Len(answers) : answers[i].verdict = 1}

\* C7: the score returned for a non-empty list of statements is the sum of
\* the verdicts over the number of answers, one answer per statement; with
\* verdicts 0 and 1 only it is the fraction of statements with verdict 1.
C7_ScoreIsAverage ==
    faith_pc = "done" =>
        LET answers == faith_result.answers
            sc == faith_result.score
        IN  /\ Len(answers) = Len(statements)
            /\ sc.den > 0
            /\ sc.num * Len(answers) = VerdictSum(answers) * sc.den
            /\ (\A i \in 1..Len(answers) : answers[i].verdict \in {0, 1}) =>
                    sc.num * Len(statements)
                        = Cardinality(Inferable(answers)) * sc.den

\* two of three statements were judged inferable
C7_Witness ==
    /\ faith_pc = "done"
    /\ Len(statements) = 3
    /\ \A i \in 1..3 : faith_result.answers[i].verdict \in {0, 1}
    /\ faith_result.score = [num |-> 2, den |-> 3]

\* C8: the score returned is between 0 and 1 inclusive.
C8_ScoreInUnitInterval ==
    faith_pc = "done" =>
        /\ 0 <= faith_result.score.num
        /\ faith_result.score.num <= faith_result.score.den

-----------------------------------------------------------------------------
(* Claims about load_template *)

Placeholders(source) ==
    {source[k].text : k \in {j \in 1..Len(source) : source[j].kind = "var"}}

Restrict(args, names) == [n \in DOMAIN args \cap names |-> args[n]]

\* a sequence of strings joined, from the right
RECURSIVE Joined(_)
Joined(pieces) ==
    IF pieces = <<>> THEN <<>>
    ELSE Head(pieces) \o Joined(Tail(pieces))

\* the text with every "<" written as "&lt;"
HtmlText(value) ==
    Joined([k \in 1..Len(value) |->
                IF value[k] = "<" THEN <<"&", "l", "t", ";">> ELSE <<value[k]>>])

\* the original statement of C9: the result is the source with every
\* placeholder replaced by the value of its argument and every literal
\* character kept.
C9_PlainSubstitution ==
    (tpl_pc = "returned" /\ Placeholders(template_source) \subseteq DOMAIN arguments)
        => rendered =
            Joined([k \in 1..Len(template_source) |->
                        IF template_source[k].kind = "lit"
                        THEN <<template_source[k].text>>
                        ELSE arguments[template_source[k].text]])

\* C9 (amended): the result is the source, with its line breaks \r\n and \r
\* written as \n and less one line break at its very end, with every
\* placeholder replaced by the value of its argument (HTML-escaped when the
\* file extension is html, htm or xml in any letter case, empty when there
\* is no such argument) and every other literal character kept; arguments
\* that are not placeholders change nothing.
C9_Rendered ==
    tpl_pc = "returned" =>
        LET src == template_source
            n == Len(src)
            IsBreak(k) == src[k] \in {Lit("\n"), Lit("\r")}
            \* the \n of a line break \r\n
            IsSecondOfPair(k) ==
                k > 1 /\ src[k] = Lit("\n") /\ src[k - 1] = Lit("\r")
            \* the line break the source ends with
            IsFinalBreak(k) ==
                /\ IsBreak(k)
                /\ \/ k = n
                   \/ k = n - 1 /\ IsSecondOfPair(n)
            escaped == template_filepath.ext \in
                        {"html", "htm", "xml", "HTML", "HTM", "XML"}
            piece(k) ==
                IF src[k].kind = "var"
                THEN IF src[k].text \notin DOMAIN arguments THEN <<>>
                     ELSE IF escaped THEN HtmlText(arguments[src[k].text])
                     ELSE arguments[src[k].text]
                ELSE IF IsSecondOfPair(k) \/ IsFinalBreak(k) THEN <<>>
                ELSE IF IsBreak(k) THEN <<"\n">>
                ELSE <<src[k].text>>
        IN  /\ rendered = Joined([k \in 1..n |-> piece(k)])
            /\ rendered =
                load_template(template_filepath, template_source,
                              Restrict(arguments, Placeholders(template_source)))

\* a rendering with a literal, a placeholder that has an argument, an
\* argument that is no placeholder, and a newline at the end of the source
C9_Witness ==
    /\ tpl_pc = "returned"
    /\ Len(template_source) = 3
    /\ template_source[1].kind = "lit"
    /\ template_source[2].kind = "var"
    /\ template_source[2].text \in DOMAIN arguments
    /\ template_source[3] = Lit("\n")
    /\ DOMAIN arguments # Placeholders(template_source)
    /\ Len(rendered) >= 2

-----------------------------------------------------------------------------
(* Claims about the summary chatbot *)

IsPrefix(s, t) == Len(s) <= Len(t) /\ \A k \in 1..Len(s) : s[k] = t[k]

Done(step) == \E k \in 1..Len(step_log) : step_log[k] = step

\* C11: in a turn the steps 1 to 4 happen in this order, once each; the
\* chatbot is called with the prompt rendered from the summary as it was
\* before the turn and the input of the turn; the summary is updated from
\* that summary, that input and the chatbot reply of the turn, and not
\* before that reply exists.
C11_TurnOrder ==
    bot_pc # "unused" =>
        /\ IsPrefix(step_log, <<1, 2, 3, 4>>)
        /\ Done(2) => chat_prompt = ChatPrompt(summary_before, bot_user_input)
        /\ Done(3) =>
            /\ chat_sent = ChatPrompt(summary_before, bot_user_input)
            /\ bot_response.turn = turn
        /\ Done(4) =>
            /\ Done(3)
            /\ summary_prompt =
                SummaryPrompt(summary_before, bot_user_input, bot_response.text)
            /\ current_summary = Summary(json_content)
        /\ ~Done(4) => current_summary = summary_before

\* the second turn is complete: its summary replaced the one of the first
C11_Witness ==
    /\ turn = 2
    /\ step_log = <<1, 2, 3, 4>>
    /\ current_summary # summary_before
    /\ chat_sent.running_summary = summary_before

-----------------------------------------------------------------------------
(* Claims about the chat loop *)

-----------------------------------------------------------------------------
(* Claims about the few-shot classification loop *)

-----------------------------------------------------------------------------
(* Claims about is_haiku and haiku_check *)

NewlinePositions(str) == {i \in 1..Len(str) : str[i] = "\n"}

\* the first and last position of each of the three lines of a text with
\* two newlines
LineBounds(str) ==
    LET first == CHOOSE i \in NewlinePositions(str) :
                    \A j \in NewlinePositions(str) : i <= j
        second == CHOOSE i \in NewlinePositions(str) :
                    \A j \in NewlinePositions(str) : j <= i
    IN  <<[lo |-> 1, hi |-> first - 1],
          [lo |-> first + 1, hi |-> second - 1],
          [lo |-> second + 1, hi |-> Len(str)]>>

\* the positions of lo..hi where a whitespace-separated word begins
WordStarts(str, lo, hi) ==
    {a \in lo..hi : str[a] # " " /\ (a = lo \/ str[a - 1] = " ")}

WordEnd(str, a, hi) ==
    CHOOSE b \in a..hi :
        /\ \A j \in a..b : str[j] # " "
        /\ b = hi \/ str[b + 1] = " "

\* the syllables of the word that begins at a, punctuation at its ends
\* apart: NoValue when what is left is not a word of the dictionary
WordCount(str, a, hi) ==
    LET kept == {j \in a..WordEnd(str, a, hi) : str[j] \notin Punctuation}
    IN  IF /\ Cardinality(kept) = 1
           /\ \E j \in kept : str[j] \in DOMAIN WordSyllables
        THEN WordSyllables[str[CHOOSE j \in kept : TRUE]]
        ELSE NoValue

RECURSIVE CountsTotal(_, _, _)
CountsTotal(str, starts, hi) ==
    IF starts = {} THEN 0
    ELSE LET a == CHOOSE a \in starts : TRUE
         IN  WordCount(str, a, hi) + CountsTotal(str, starts \ {a}, hi)

\* the words of lo..hi are all in the dictionary and have total syllables
HasSyllables(str, lo, hi, total) ==
    /\ \A a \in WordStarts(str, lo, hi) : WordCount(str, a, hi) # NoValue
    /\ CountsTotal(str, WordStarts(str, lo, hi), hi) = total

IsFiveSevenFive(str) ==
    /\ Cardinality(NewlinePositions(str)) = 2
    /\ HasSyllables(str, LineBounds(str)[1].lo, LineBounds(str)[1].hi, 5)
    /\ HasSyllables(str, LineBounds(str)[2].lo, LineBounds(str)[2].hi, 7)
    /\ HasSyllables(str, LineBounds(str)[3].lo, LineBounds(str)[3].hi, 5)

\* C14: is_haiku returns False whenever the response does not have exactly
\* three lines, and returns True exactly when it has three lines whose
\* syllable totals are 5, 7 and 5.
C14_IsHaikuVerdict ==
    haiku_returned # NotReturned =>
        /\ Cardinality(NewlinePositions(haiku_response)) # 2 =>
            haiku_returned = PyBool(FALSE)
        /\ haiku_returned = PyBool(TRUE) <=> IsFiveSevenFive(haiku_response)

\* True for a response of three lines with a punctuation mark
C14_Witness ==
    /\ haiku_pc = "returned"
    /\ haiku_returned = PyBool(TRUE)
    /\ Len(haiku_response) = 6
    /\ \E i \in 1..6 : haiku_response[i] \in Punctuation

\* C15: is_haiku returns True or False for every response, so the check of
\* every tuple of haiku_check is a boolean.
C15_ReturnsBoolean ==
    /\ haiku_returned # NotReturned => haiku_returned.kind = "bool"
    /\ \A k \in 1..Len(responses) : responses[k][2].kind = "bool"

-----------------------------------------------------------------------------
(* Claims about the perplexity score *)

\* the sum of the elements of xs, from the last one down
RECURSIVE Total(_)
Total(xs) ==
    IF Len(xs) = 0 THEN 0
    ELSE Total(SubSeq(xs, 1, Len(xs) - 1)) + xs[Len(xs)]

-----------------------------------------------------------------------------
(* Claims about the reference trimming operation *)

\* ref_start is the state in which the running check_token_limit was entered
StartedAtEntry ==
    /\ pc = "while"
    /\ ref_start # NoStart
    /\ ref_start.adds = adds
    /\ Len(ref_start.history) = Len(history) + evictions

\* C21: with response() as the only caller, check_token_limit ends with the
\* history and the tokens that the reference loop (remove history[1] while
\* tokens > token_limit and len(history) > 1) ends with from the state in which
\* check_token_limit was entered, and on its way there it only passes states
\* from which the reference ends the same.
C21_SameAsReference ==
    StartedAtEntry =>
        /\ ~spinning
        /\ Reference(history, tokens) = ref_result
        /\ ~WhileCond => /\ history = ref_result.history
                         /\ tokens = ref_result.tokens

\* check_token_limit has ended after two evictions, a message is left to send
C21_Witness ==
    /\ StartedAtEntry
    /\ ~WhileCond
    /\ evictions = 2
    /\ Len(history) >= 2
    /\ history = ref_result.history
    /\ tokens = ref_result.tokens
    /\ tokens < ref_start.tokens

-----------------------------------------------------------------------------
(* Claims about a failed request *)

\* the ordinals of the messages of h
Ordinals(h) == {h[k].n : k \in 1..Len(h)}

\* before_call is the state the running response() call started from: no
\* step but ResponseCall leaves "idle" and it alone has added a message
NotedBeforeCall ==
    /\ pc = "request"
    /\ before_call # NoStart
    /\ before_call.adds = adds - 1

\* C22: when the request of response() fails nothing is undone. The user
\* message of the call (ordinal adds) is still the last message of history
\* and counted in tokens, unless the trimming of this call removed it; the
\* messages this call evicted are still missing: history is the history from
\* before the call plus the user message, less the evicted messages, and it
\* differs from the history before the call unless the user message is the
\* one message evicted.
C22_NoRollback ==
    [][(NotedBeforeCall /\ outcome' = "raised") =>
        LET before == before_call.history
            evicted == (Ordinals(before) \cup {adds}) \ Ordinals(history')
        IN  /\ pc' = "idle"
            /\ history' = history
            /\ tokens' = tokens
            /\ tokens' = ContentTotal(history')
            /\ Ordinals(history') \subseteq Ordinals(before) \cup {adds}
            /\ \A k \in 1..Len(history') :
                history'[k].n # adds => history'[k] \in
                    {before[j] : j \in 1..Len(before)}
            /\ Cardinality(evicted) = evictions
            /\ Len(history') = Len(before) + 1 - evictions
            /\ adds \notin evicted =>
                /\ history'[Len(history')].n = adds
                /\ history'[Len(history')].role = "user"
                /\ history' # before
            /\ evictions = 0 =>
                /\ SubSeq(history', 1, Len(before)) = before
                /\ tokens' = before_call.tokens
                                + history'[Len(history')].content
            /\ evicted # {adds} => history' # before]_vars

\* after a failed call that evicted one message and kept its user message
C22_Witness ==
    /\ pc = "idle"
    /\ outcome = "raised"
    /\ before_call.adds = adds - 1
    /\ before_call.tokens = tokens_at_call
    /\ requests = 1
    /\ evictions = 1
    /\ Len(history) = Len(before_call.history)
    /\ history # before_call.history
    /\ history[Len(history)].n = adds
    /\ history[Len(history)].role = "user"
    /\ tokens # before_call.tokens

====
